---- MODULE Spec2Model ----
(***************************************************************************)
(* Model of py/kubeflow/kubeflow/ci/update_jupyter_web_app.py: the         *)
(* WebAppUpdater that resolves (or builds) the jupyter-web-app image,      *)
(* patches the ksonnet prototype and opens a pull request.                 *)
(*                                                                         *)
(* Text is modelled as a sequence of atoms.  An atom is a TLA+ string      *)
(* standing for one or more consecutive characters of the text; the        *)
(* whitespace atoms and the separators the code splits on (";", ":", "/",  *)
(* the newline, the double quote) are atoms of their own in every text the *)
(* code splits on them.  A Python str that the code only compares or       *)
(* concatenates (a token, an image reference, a title, a branch name) is a *)
(* TLA+ string.                                                            *)
(***************************************************************************)
EXTENDS Integers, Sequences, FiniteSets, TLC

\* ------------------------------------------------------------------ bounds

\* Number of successive runs of all() (one process each) on the same checkout.
MaxRuns == 2

\* Number of text lines handed to _replace_parameters in PatchSpec.
MaxLines == 2

\* Number of revision branches the checkout holds before the first run.
MaxOldBranches == 1

\* ------------------------------------------------------- program constants

\* `if len(pieces) < 5`
MinPieces == 5

\* `if e.status == 404`
NotFound == 404

\* Python's None (no revision, image, title or path is this string).
None == "None"

\* ------------------------------------------------------------ str helpers

WhiteSpace == {" ", "\t", "\n", "\r"}

RECURSIVE Concat(_)
Concat(atoms) ==
  IF atoms = <<>> THEN "" ELSE Head(atoms) \o Concat(Tail(atoms))

RECURSIVE RunLen(_)
RunLen(text) ==
  IF text = <<>> \/ Head(text) \in WhiteSpace THEN 0 ELSE 1 + RunLen(Tail(text))

\* re.findall(r'\S+', line): the maximal runs of non-whitespace, as strs.
RECURSIVE re_findall_nonspace(_)
re_findall_nonspace(line) ==
  IF line = <<>> THEN <<>>
  ELSE IF Head(line) \in WhiteSpace THEN re_findall_nonspace(Tail(line))
  ELSE LET n == RunLen(line)
       IN  <<Concat(SubSeq(line, 1, n))>>
             \o re_findall_nonspace(SubSeq(line, n + 1, Len(line)))

\* sep.join(pieces), as text.
RECURSIVE str_join(_, _)
str_join(sep, pieces) ==
  IF pieces = <<>> THEN <<>>
  ELSE IF Len(pieces) = 1 THEN <<pieces[1]>>
  ELSE <<Head(pieces), sep>> \o str_join(sep, Tail(pieces))

\* sep.join(texts) for a list of texts (the lines of a file), as text.
RECURSIVE text_join(_, _)
text_join(sep, texts) ==
  IF texts = <<>> THEN <<>>
  ELSE IF Len(texts) = 1 THEN texts[1]
  ELSE Head(texts) \o <<sep>> \o text_join(sep, Tail(texts))

\* Position of the first occurrence of the atom sep in text, 0 when absent.
IndexOf(text, sep) ==
  IF \E i \in 1..Len(text) : text[i] = sep
  THEN CHOOSE i \in 1..Len(text) :
         text[i] = sep /\ \A j \in 1..(i - 1) : text[j] # sep
  ELSE 0

\* text.split(sep)
RECURSIVE str_split(_, _)
str_split(text, sep) ==
  LET k == IndexOf(text, sep)
  IN  IF k = 0 THEN <<text>>
      ELSE <<SubSeq(text, 1, k - 1)>>
             \o str_split(SubSeq(text, k + 1, Len(text)), sep)

\* text.split(sep, 1)
str_split1(text, sep) ==
  LET k == IndexOf(text, sep)
  IN  IF k = 0 THEN <<text>>
      ELSE <<SubSeq(text, 1, k - 1), SubSeq(text, k + 1, Len(text))>>

\* text.splitlines(): split on the newline, no empty last line.
str_splitlines(text) ==
  LET parts == str_split(text, "\n")
  IN  IF parts[Len(parts)] = <<>> THEN SubSeq(parts, 1, Len(parts) - 1)
      ELSE parts

\* text.strip(ch)
RECURSIVE str_lstrip(_, _)
str_lstrip(text, ch) ==
  IF text # <<>> /\ Head(text) = ch THEN str_lstrip(Tail(text), ch) ELSE text

RECURSIVE str_rstrip(_, _)
str_rstrip(text, ch) ==
  IF text # <<>> /\ text[Len(text)] = ch
  THEN str_rstrip(SubSeq(text, 1, Len(text) - 1), ch) ELSE text

str_strip(text, ch) == str_rstrip(str_lstrip(text, ch), ch)

\* text.startswith(prefix), prefix a text too.
str_startswith(text, prefix) ==
  Len(text) >= Len(prefix) /\ SubSeq(text, 1, Len(prefix)) = prefix

\* ------------------------------------------------------------------ dicts

EmptyDict == [k \in {} |-> ""]

DictSet(d, k, v) == [x \in DOMAIN d \cup {k} |-> IF x = k THEN v ELSE d[x]]

\* ------------------------------------------------------ _replace_parameters

\* Faulty variant: the fourth token (the type) is overwritten.
SetValue_OffByOne(pieces, value) == [pieces EXCEPT ![4] = value]

\* `pieces[4] = values[param_name]` (Python counts from 0).
SetValue(pieces, value) == [pieces EXCEPT ![5] = value]

\* One iteration of `for i, line in enumerate(lines)`, then the rest.
RECURSIVE ReplaceLoop(_, _, _, _)
ReplaceLoop(lines, values, old, i) ==
  IF i > Len(lines) THEN [lines |-> lines, old |-> old]
  ELSE LET pieces == re_findall_nonspace(lines[i])
       IN  IF Len(pieces) < MinPieces
             THEN ReplaceLoop(lines, values, old, i + 1)
           ELSE IF pieces[1] # "//" \/ pieces[2] # "@optionalParam"
             THEN ReplaceLoop(lines, values, old, i + 1)
           ELSE IF pieces[3] \notin DOMAIN values
             THEN ReplaceLoop(lines, values, old, i + 1)
           ELSE ReplaceLoop(
                  [lines EXCEPT
                     ![i] = str_join(" ", SetValue(pieces, values[pieces[3]]))],
                  values,
                  DictSet(old, pieces[3], pieces[5]),
                  i + 1)

_replace_parameters(lines, values) == ReplaceLoop(lines, values, EmptyDict, 1)

\* ------------------------------------------------------------ the program

VARIABLES
  \* The checkout and the services around it; they outlive a run.
  proto,            \* text of kubeflow/jupyter/prototypes/jupyter-web-app.jsonnet
  proto0,           \* that file as first checked out
  branches,         \* local branch name -> what `git log -n 1 <component>` prints there
  active,           \* repo.active_branch.name
  remotes,          \* repo.remotes: set of [name, urls]
  prs,              \* open pull requests on the host: set of [n, t]
  createdFor,       \* revision -> number of create_pull_request calls made for it
  \* One run of all().
  run,              \* number of the current run
  pc,               \* position in all()
  outcome,          \* how the run ended
  registry_project, remote_fork, add_github_host,   \* arguments of all()
  self_last_commit, \* self._last_commit
  last_commit,      \* local variable of all()
  remote_repo,      \* name of the remote found or created
  image,            \* local variable of all()
  image_exists,     \* local variable of all()
  prototype_file,   \* result of update_prototype
  calls,            \* the external calls this run has made
  \* Input and output of one call of _replace_parameters (PatchSpec).
  p_lines, p_values, p_out

world  == <<proto, proto0, branches, active, remotes, prs, createdFor>>
args   == <<registry_project, remote_fork, add_github_host>>
locals == <<last_commit, remote_repo, image, image_exists, prototype_file>>
patch  == <<p_lines, p_values, p_out>>
vars   == <<world, run, pc, outcome, args, self_last_commit, locals, calls, patch>>

\* Revisions `git log` can print for the component; "" when no commit touches it.
Revs == {"", "a", "b"}

RegistryProjects == {"proj"}

RemoteForks ==
  { <<"git@github.com", ":", "jlewi", "/", "kubeflow.git">>,
    <<"https", ":", "//github.com", "/", "jlewi", "/", "kubeflow.git">> }

\* `base = "gcr.io/{0}/jupyter-web-app".format(registry_project)`
Base(rp) == "gcr.io/" \o rp \o "/jupyter-web-app"

\* `image = base + ":" + self.last_commit`
ImageName(rp, tag) == Base(rp) \o ":" \o tag

\* Image references a build can report or the prototype can hold.
Images == { ImageName("proj", t) : t \in {"a", "b", "old0"} }

\* Results of v2_2_image.FromRegistry: the manifest, or a V2DiagnosticException.
FetchResults ==
  { [found |-> TRUE,  status |-> 200],
    [found |-> FALSE, status |-> 404],
    [found |-> FALSE, status |-> 500] }

PrototypePath == "kubeflow/jupyter/prototypes/jupyter-web-app.jsonnet"

_pr_title(commit) ==
  "[auto PR] Update the jupyter-web-app image to " \o commit

\* `branch_name = "update_jupyter_{0}".format(last_commit)`
BranchName(commit) == "update_jupyter_" \o commit

NoCalls ==
  [ git_log |-> 0, known_hosts |-> 0, create_remote |-> 0,
    fetch |-> None, fetch_status |-> 0, build |-> 0, git_tag |-> None,
    data_image |-> None, write |-> 0, checkout |-> None, pr_list |-> 0,
    title_checked |-> None,
    commit |-> 0, commit_msg |-> None, push |-> 0,
    pr_create |-> 0, title_created |-> None ]

\* ---- the last_commit property

\* util.run(["git", "log", "-n", "1", "--pretty=format:\"%h\"", <component>])
GitLogOutput == <<"\"", branches[active], "\"">>

\* Python's `not v` for v a str or None.
Falsy(v) == v = None \/ v = ""

\* What the property returns, which is also what it leaves in self._last_commit.
LastCommit(cached) ==
  IF Falsy(cached) THEN Concat(str_strip(GitLogOutput, "\"")) ELSE cached

\* How many times the property runs `git log`.
LastCommitQueries(cached) == IF Falsy(cached) THEN 1 ELSE 0

\* ---- the prototype file

HeaderLine == <<"//", " ", "@name", " ", "jupyter-web-app">>

UiParamLine ==
  <<"//", " ", "@optionalParam", " ", "ui", " ", "string", " ", "default",
    " ", "UI">>

ImageParamLine(v) ==
  <<"//", " ", "@optionalParam", " ", "image", " ", "string", " ", v,
    " ", "The", " ", "image">>

\* The same declaration with irregular whitespace.
WideImageParamLine(v) ==
  <<" ", "//", " ", " ", "@optionalParam", "\t", "image", " ", "string",
    " ", " ", v, " ", "Image", " ">>

CodeLine == <<"local", " ", "k", " ", "=", " ", "import", " ", "\"k.libsonnet\"">>

PrototypeFiles ==
  { text_join("\n", <<HeaderLine, UiParamLine, CodeLine>>) }
    \cup { text_join("\n", <<HeaderLine, ImageParamLine(v), CodeLine, <<>> >>)
             : v \in Images }
    \cup { text_join("\n", <<WideImageParamLine(ImageName("proj", "a")),
                             CodeLine>>),
           text_join("\n", <<ImageParamLine(ImageName("proj", "old0")),
                             UiParamLine,
                             ImageParamLine(ImageName("proj", "a"))>>) }

\* Faulty variant: the image is never found to be current.
AlreadyCurrent_Never(old_values, img) == FALSE

\* `if old_values["image"] == image`
AlreadyCurrent(old_values, img) == old_values["image"] = img

\* update_prototype up to its decision: the patched lines, the old values,
\* and whether `old_values["image"]` raises KeyError.
PatchPrototype(text, img) ==
  LET prototype == str_split(text, "\n")
      r         == _replace_parameters(prototype, "image" :> img)
  IN  [ new_lines  |-> r.lines,
        old_values |-> r.old,
        key_error  |-> "image" \notin DOMAIN r.old ]

\* ---- remotes

_find_remote_repo(repo_remotes, remote_url) ==
  IF \E r \in repo_remotes : remote_url \in r.urls
  THEN (CHOOSE r \in repo_remotes : remote_url \in r.urls).name
  ELSE None

\* `fork_name = remote_fork.split(":", 1)[-1].split("/", 1)[0]`
ForkName(url) ==
  LET a == str_split1(url, ":")
      b == str_split1(a[Len(a)], "/")
  IN  Concat(b[1])

OriginRemote ==
  [ name |-> "origin",
    urls |-> { <<"git@github.com", ":", "kubeflow", "/", "kubeflow.git">> } ]

\* ---- pull requests

PrUrl(k) == "https://github.com/kubeflow/kubeflow/pull/" \o ToString(k)

\* Output of `hub pr list --format=%U;%t\n`: one "url;title" line per open PR.
RECURSIVE HubPrList(_)
HubPrList(open) ==
  IF open = {} THEN <<>>
  ELSE LET p == CHOOSE q \in open : TRUE
       IN  <<p.n, ";", p.t, "\n">> \o HubPrList(open \ {p})

\* Faulty variant: each record is filed under its url instead of its title.
RECURSIVE ParsePrs_ByUrl(_, _)
ParsePrs_ByUrl(lines, d) ==
  IF lines = <<>> THEN d
  ELSE LET nt == str_split1(Head(lines), ";")
       IN  ParsePrs_ByUrl(Tail(lines),
                          DictSet(d, Concat(nt[1]), Concat(nt[2])))

\* `for l in lines: n, t = l.split(";", 1); prs[t] = n`
RECURSIVE ParsePrs(_, _)
ParsePrs(lines, d) ==
  IF lines = <<>> THEN d
  ELSE LET nt == str_split1(Head(lines), ";")
       IN  ParsePrs(Tail(lines), DictSet(d, Concat(nt[2]), Concat(nt[1])))

\* ------------------------------------------------------------------- Init

PatchIdle ==
  /\ p_lines = <<>>
  /\ p_values = EmptyDict
  /\ p_out = [done |-> FALSE, lines |-> <<>>, old |-> EmptyDict]

\* __init__, before all() is called.
RunInit ==
  /\ pc = "idle"
  /\ outcome = None
  /\ registry_project = None
  /\ remote_fork = <<>>
  /\ add_github_host = FALSE
  /\ self_last_commit = None
  /\ last_commit = None
  /\ remote_repo = None
  /\ image = None
  /\ image_exists = FALSE
  /\ prototype_file = None
  /\ calls = NoCalls

\* Branches a checkout can hold besides master: those of earlier runs.
InitBranches ==
  UNION { [ {"master"} \cup { BranchName(r) : r \in S } -> Revs ]
            : S \in { T \in SUBSET (Revs \ {""}) :
                        Cardinality(T) <= MaxOldBranches } }

Init ==
  /\ proto \in PrototypeFiles
  /\ proto0 = proto
  /\ branches \in InitBranches
  /\ active = "master"
  /\ remotes \in { {OriginRemote},
                   {OriginRemote,
                    [name |-> "jlewi",
                     urls |-> { <<"git@github.com", ":", "jlewi", "/",
                                  "kubeflow.git">> }]} }
  /\ prs \in SUBSET { [n |-> PrUrl(100 + k), t |-> _pr_title(r)]
                        : <<k, r>> \in {<<1, "a">>, <<2, "b">>} }
  /\ createdFor = [r \in Revs |-> 0]
  /\ run = 1
  /\ RunInit
  /\ PatchIdle

\* ---------------------------------------------------------------- all()

\* Lines 175-177: the repo, the service account, `last_commit = self.last_commit`.
Begin ==
  /\ pc = "idle"
  /\ \E rf \in RemoteForks, gh \in BOOLEAN, rp \in RegistryProjects :
       /\ remote_fork' = rf
       /\ add_github_host' = gh
       /\ registry_project' = rp
  /\ self_last_commit' = LastCommit(self_last_commit)
  /\ last_commit' = self_last_commit'
  /\ calls' = [calls EXCEPT !.git_log = @ + LastCommitQueries(self_last_commit)]
  /\ pc' = "known_hosts"
  /\ UNCHANGED <<world, run, outcome, remote_repo, image, image_exists,
                 prototype_file, patch>>

\* Lines 180-184: `if add_github_host:` append ssh-keyscan's output to known_hosts.
AddGithubHost ==
  /\ pc = "known_hosts"
  /\ calls' = IF add_github_host
              THEN [calls EXCEPT !.known_hosts = @ + 1]
              ELSE calls
  /\ pc' = "check_fork"
  /\ UNCHANGED <<world, run, outcome, args, self_last_commit, locals, patch>>

\* Lines 186-187: `if not remote_fork.startswith("git@github.com"): raise ValueError`.
CheckRemoteFork ==
  /\ pc = "check_fork"
  /\ IF ~str_startswith(remote_fork, <<"git@github.com">>)
     THEN pc' = "done" /\ outcome' = "ValueError"
     ELSE pc' = "find_remote" /\ outcome' = outcome
  /\ UNCHANGED <<world, run, args, self_last_commit, locals, calls, patch>>

\* Lines 189-194: find the remote by URL, or create it.
FindOrCreateRemote ==
  /\ pc = "find_remote"
  /\ LET found == _find_remote_repo(remotes, remote_fork)
     IN  IF found # None
         THEN /\ remote_repo' = found
              /\ UNCHANGED <<remotes, calls>>
         ELSE /\ remote_repo' = ForkName(remote_fork)
              /\ remotes' = remotes \cup
                   { [name |-> ForkName(remote_fork), urls |-> {remote_fork}] }
              /\ calls' = [calls EXCEPT !.create_remote = @ + 1]
  /\ pc' = "check_registry"
  /\ UNCHANGED <<proto, proto0, branches, active, prs, createdFor, run,
                 outcome, args, self_last_commit, last_commit, image,
                 image_exists, prototype_file, patch>>

\* Faulty variant: every registry error is taken for a missing image.
IsNotFound_AnyStatus(status) == TRUE

\* `if e.status == 404:`
IsNotFound(status) == status = NotFound

\* docker_name.from_string(image) parses strictly: a name ending in ":", with
\* an empty tag, is no valid name and raises BadNameException.
ValidTag(tag) == tag # ""

\* Lines 198-216: fetch the manifest of base:revision from the registry.
CheckRegistry ==
  /\ pc = "check_registry"
  /\ self_last_commit' = LastCommit(self_last_commit)
  /\ image' = ImageName(registry_project, self_last_commit')
  /\ IF ~ValidTag(self_last_commit')
     THEN /\ calls' = [calls EXCEPT
                         !.git_log = @ + LastCommitQueries(self_last_commit)]
          /\ image_exists' = FALSE
          /\ pc' = "done" /\ outcome' = "BadNameException"
     ELSE \E res \in FetchResults :
            /\ calls' = [calls EXCEPT
                           !.git_log = @ + LastCommitQueries(self_last_commit),
                           !.fetch = image',
                           !.fetch_status = res.status]
            /\ IF res.found
               THEN image_exists' = TRUE /\ pc' = "build"
                      /\ outcome' = outcome
               ELSE IF IsNotFound(res.status)
               THEN image_exists' = FALSE /\ pc' = "build"
                      /\ outcome' = outcome
               ELSE image_exists' = FALSE /\ pc' = "done"
                      /\ outcome' = "V2DiagnosticException"
  /\ UNCHANGED <<world, run, args, last_commit, remote_repo, prototype_file,
                 patch>>

\* Faulty variant: the image is built even when the registry has it.
NeedsBuild_Always(exists) == TRUE

\* `if not image_exists:`
NeedsBuild(exists) == ~exists

\* Lines 218-223 and build_image: `make build-gcb`, then data["image"].
BuildIfMissing ==
  /\ pc = "build"
  /\ IF NeedsBuild(image_exists)
     THEN \/ \E data_image \in Images :
               /\ calls' = [calls EXCEPT !.build = @ + 1,
                                         !.git_tag = self_last_commit,
                                         !.data_image = data_image]
               /\ image' = data_image
               /\ pc' = "update_prototype" /\ outcome' = outcome
          \/ /\ calls' = [calls EXCEPT !.build = @ + 1,
                                         !.git_tag = self_last_commit]
             /\ image' = image
             /\ pc' = "done" /\ outcome' = "CalledProcessError"
     ELSE /\ pc' = "update_prototype"
          /\ UNCHANGED <<calls, image, outcome>>
  /\ UNCHANGED <<world, run, args, self_last_commit, last_commit, remote_repo,
                 image_exists, prototype_file, patch>>

\* Line 227 and update_prototype, then lines 229-231.
UpdatePrototype ==
  /\ pc = "update_prototype"
  /\ LET r == PatchPrototype(proto, image)
     IN  IF r.key_error
         THEN /\ pc' = "done" /\ outcome' = "KeyError"
              /\ UNCHANGED <<proto, prototype_file, calls>>
         ELSE IF AlreadyCurrent(r.old_values, image)
         THEN /\ prototype_file' = None
              /\ pc' = "done" /\ outcome' = "no_update"
              /\ UNCHANGED <<proto, calls>>
         ELSE /\ proto' = text_join("\n", r.new_lines)
              /\ calls' = [calls EXCEPT !.write = @ + 1]
              /\ prototype_file' = PrototypePath
              /\ pc' = "checkout" /\ outcome' = outcome
  /\ UNCHANGED <<proto0, branches, active, remotes, prs, createdFor, run, args,
                 self_last_commit, last_commit, remote_repo, image,
                 image_exists, patch>>

\* Faulty variant: the run believes it is on the revision's branch already.
OnBranch_Always(current, branch_name) == TRUE

\* `repo.active_branch.name != branch_name`, negated.
OnBranch(current, branch_name) == current = branch_name

\* Lines 233-243: switch to the branch named after the revision.
CheckoutBranch ==
  /\ pc = "checkout"
  /\ LET branch_name == BranchName(last_commit)
     IN  IF ~OnBranch(active, branch_name)
         THEN /\ active' = branch_name
              /\ IF branch_name \in DOMAIN branches
                 THEN /\ branches' = branches
                      /\ calls' = [calls EXCEPT !.checkout = "git checkout"]
                 ELSE /\ branches' =
                           branches @@ (branch_name :> branches[active])
                      /\ calls' = [calls EXCEPT !.checkout = "git checkout -b"]
         ELSE UNCHANGED <<active, branches, calls>>
  /\ pc' = "check_pr"
  /\ UNCHANGED <<proto, proto0, remotes, prs, createdFor, run, outcome, args,
                 self_last_commit, locals, patch>>

\* Faulty variant: the title is never found in the listing.
TitleListed_Never(title, listed) == FALSE

\* `if pr_title in prs:`
TitleListed(title, listed) == title \in DOMAIN listed

\* Lines 245-252 and _check_if_pr_exists(commit=last_commit).
CheckIfPrExists ==
  /\ pc = "check_pr"
  /\ LET requery  == Falsy(last_commit)                    \* `if not commit:`
         commit   == IF requery THEN LastCommit(self_last_commit)
                     ELSE last_commit
         pr_title == _pr_title(commit)
         lines    == str_splitlines(HubPrList(prs))
         listed   == ParsePrs(lines, EmptyDict)
     IN  /\ self_last_commit' = IF requery THEN commit ELSE self_last_commit
         /\ calls' = [calls EXCEPT
                        !.git_log = @ + (IF requery
                                         THEN LastCommitQueries(self_last_commit)
                                         ELSE 0),
                        !.pr_list = @ + 1,
                        !.title_checked = pr_title]
         /\ IF TitleListed(pr_title, listed)
            THEN pc' = "done" /\ outcome' = "pr_exists"
            ELSE pc' = "commit" /\ outcome' = outcome
  /\ UNCHANGED <<world, run, args, locals, patch>>

\* Lines 254-258: stage the prototype, commit, `git push -f <remote>`.
CommitAndPush ==
  /\ pc = "commit"
  /\ calls' = [calls EXCEPT
                 !.commit = @ + 1,
                 !.commit_msg = "Update the jupyter web app image to " \o image,
                 !.push = @ + 1]
  /\ pc' = "create_pr"
  /\ UNCHANGED <<world, run, outcome, args, self_last_commit, locals, patch>>

\* Line 260 and create_pull_request(commit=last_commit).
CreatePullRequest ==
  /\ pc = "create_pr"
  /\ LET pr_title == _pr_title(last_commit)
     IN  /\ prs' = prs \cup
                     { [n |-> PrUrl(Cardinality(prs) + 1), t |-> pr_title] }
         /\ calls' = [calls EXCEPT !.pr_create = @ + 1,
                                   !.title_created = pr_title]
  /\ createdFor' = [createdFor EXCEPT ![last_commit] = @ + 1]
  /\ pc' = "done"
  /\ outcome' = "pr_created"
  /\ UNCHANGED <<proto, proto0, branches, active, remotes, run, args,
                 self_last_commit, locals, patch>>

\* ---- between runs

\* How the checkout is prepared for the next run: left as it is, the
\* prototype restored, or `git checkout master` (which restores the prototype
\* if the run committed it, and carries an uncommitted change along).
Preparations == {"keep", "reset", "checkout master"}

\* The next cron run: a new process, a new WebAppUpdater, the same checkout.
NewRun ==
  /\ pc = "done"
  /\ run < MaxRuns
  /\ \E prep \in Preparations :
       /\ proto' = IF \/ prep = "reset"
                      \/ prep = "checkout master" /\ calls.commit > 0
                   THEN proto0 ELSE proto
       /\ active' = IF prep = "checkout master" THEN "master" ELSE active
  /\ run' = run + 1
  /\ pc' = "idle"
  /\ outcome' = None
  /\ registry_project' = None
  /\ remote_fork' = <<>>
  /\ add_github_host' = FALSE
  /\ self_last_commit' = None                 \* __init__
  /\ last_commit' = None
  /\ remote_repo' = None
  /\ image' = None
  /\ image_exists' = FALSE
  /\ prototype_file' = None
  /\ calls' = NoCalls
  /\ UNCHANGED <<proto0, branches, remotes, prs, createdFor, patch>>

Next ==
  \/ Begin
  \/ AddGithubHost
  \/ CheckRemoteFork
  \/ FindOrCreateRemote
  \/ CheckRegistry
  \/ BuildIfMissing
  \/ UpdatePrototype
  \/ CheckoutBranch
  \/ CheckIfPrExists
  \/ CommitAndPush
  \/ CreatePullRequest
  \/ NewRun

Spec == Init /\ [][Next]_vars

\* ------------------------------------- _replace_parameters on its own

PatchLineChoices ==
  { <<>>,
    ImageParamLine("v1"),
    WideImageParamLine("v2"),
    UiParamLine,
    HeaderLine,
    CodeLine,
    <<"//", " ", "@optionalParam", " ", "image", " ", "string">>,
    <<"//", " ", "@optionalParam", " ", "image", " ", "string", " ", "v3">>,
    <<"/", "/", " ", "@optional", "Param", " ", "image", " ", "string", " ",
      "v", "4", " ", "x">>,
    <<"#", " ", "@optionalParam", " ", "image", " ", "string", " ", "v5",
      " ", "x">>,
    <<"//", " ", "@param", " ", "image", " ", "string", " ", "v6", " ", "x">> }

PatchValueChoices ==
  { EmptyDict,
    "image" :> "X",
    "image" :> "v1",
    "ui" :> "Y",
    ("image" :> "X") @@ ("ui" :> "Y"),
    "string" :> "Z" }

PatchInit ==
  /\ proto = text_join("\n", <<HeaderLine, UiParamLine, CodeLine>>)
  /\ proto0 = proto
  /\ branches = ("master" :> "a")
  /\ active = "master"
  /\ remotes = {OriginRemote}
  /\ prs = {}
  /\ createdFor = [r \in Revs |-> 0]
  /\ run = 1
  /\ RunInit
  /\ \E n \in 0..MaxLines : p_lines \in [1..n -> PatchLineChoices]
  /\ p_values \in PatchValueChoices
  /\ p_out = [done |-> FALSE, lines |-> <<>>, old |-> EmptyDict]

\* One call of _replace_parameters(lines, values).
Patch ==
  /\ ~p_out.done
  /\ LET r == _replace_parameters(p_lines, p_values)
     IN  p_out' = [done |-> TRUE, lines |-> r.lines, old |-> r.old]
  /\ UNCHANGED <<world, run, pc, outcome, args, self_last_commit, locals,
                 calls, p_lines, p_values>>

PatchNext == Patch

PatchSpec == PatchInit /\ [][PatchNext]_vars

\* ================================================================= claims

\* An open pull request carries this title.
TitleOpen(title) == \E p \in prs : p.t = title

\* A line of the recognised shape declaring parameter name.
Declares(line, name) ==
  LET p == re_findall_nonspace(line)
  IN  Len(p) >= 5 /\ p[1] = "//" /\ p[2] = "@optionalParam" /\ p[3] = name

\* The value the file gives parameter name: that of its last declaration.
DeclaredValue(text, name) ==
  LET ls  == str_split(text, "\n")
      idx == { i \in 1..Len(ls) : Declares(ls[i], name) }
  IN  IF idx = {} THEN None
      ELSE re_findall_nonspace(
             ls[CHOOSE i \in idx : \A j \in idx : j <= i])[5]

\* The run has committed, pushed and created nothing.
NothingCommitted ==
  calls.commit = 0 /\ calls.push = 0 /\ calls.pr_create = 0

\* The run has made none of the branch, commit, push or pull-request calls.
NothingPublished(c) ==
  /\ c.checkout = None
  /\ c.commit = 0
  /\ c.push = 0
  /\ c.pr_list = 0
  /\ c.pr_create = 0

\* C1: when the resolved image equals the value the prototype's `image`
\* parameter holds before patching, update_prototype returns None and the run
\* ends there: the file is not written, no branch is created or switched to,
\* nothing is committed or pushed, and pull requests are neither listed nor
\* created.
C1_UnchangedImageEndsRun ==
  [][ (pc = "update_prototype" /\ DeclaredValue(proto, "image") = image)
        => /\ pc' = "done"
           /\ outcome' = "no_update"
           /\ prototype_file' = None
           /\ proto' = proto
           /\ branches' = branches
           /\ active' = active
           /\ prs' = prs
           /\ calls'.write = 0
           /\ NothingPublished(calls') ]_vars

C1_Witness ==
  /\ pc = "done"
  /\ outcome = "no_update"
  /\ DeclaredValue(proto, "image") = image
  /\ calls.build = 1

\* C2: while a pull request whose title is exactly the title of the run's
\* source revision is open, no step of the run commits, force-pushes or
\* creates a pull request.
C2_NoPublishWhilePrOpen ==
  [][ (pc \notin {"idle", "done"} /\ TitleOpen(_pr_title(last_commit)))
        => /\ calls'.commit = calls.commit
           /\ calls'.push = calls.push
           /\ calls'.pr_create = calls.pr_create ]_vars

C2_Witness ==
  /\ pc = "done"
  /\ outcome = "pr_exists"
  /\ TitleOpen(_pr_title(last_commit))
  /\ calls.write = 1
  /\ NothingCommitted

\* C3: over successive runs, with the prototype kept or reset in between and
\* no pull request closed, create_pull_request is called at most once for
\* any one source revision.
C3_AtMostOnePrPerRevision == \A r \in Revs : createdFor[r] <= 1

C3_Witness ==
  /\ run > 1
  /\ pc = "done"
  /\ outcome = "pr_exists"
  /\ createdFor[last_commit] = 1
  /\ proto0 # proto

\* The run is past the image resolution of lines 198-223.
ImageResolved ==
  \/ pc \in {"update_prototype", "checkout", "check_pr", "commit", "create_pr"}
  \/ pc = "done" /\ outcome \in {"KeyError", "no_update", "pr_exists",
                                 "pr_created"}

\* C4: after a manifest fetch that failed with status 404 the build has run
\* exactly once and the image used from then on is the `image` field of its
\* output; after a fetch that found the manifest the build has not run and
\* the image used is the candidate base:revision itself.
C4_BuildOnlyWhenMissing ==
  ImageResolved =>
    /\ calls.fetch_status = 404 => (calls.build = 1 /\ image = calls.data_image)
    /\ calls.fetch_status = 200 => (calls.build = 0 /\ image = calls.fetch)
    /\ calls.fetch_status \in {200, 404}
    /\ calls.fetch = ImageName(registry_project, last_commit)
    /\ calls.commit > 0 =>
         calls.commit_msg = "Update the jupyter web app image to " \o image

C4_Witness ==
  /\ pc = "done"
  /\ outcome = "pr_created"
  /\ calls.fetch_status = 404
  /\ calls.build = 1
  /\ image = calls.data_image
  /\ image # calls.fetch

\* C5: a manifest fetch that fails with a status other than 404 ends the run
\* with that error; no build is attempted, the prototype is not patched, and
\* no branch, commit, push or pull-request step is performed.
C5_RegistryErrorIsFatal ==
  (calls.fetch # None /\ calls.fetch_status \notin {200, 404})
    => /\ pc = "done"
       /\ outcome = "V2DiagnosticException"
       /\ calls.build = 0
       /\ calls.write = 0
       /\ NothingPublished(calls)

C5_Witness ==
  /\ pc = "done"
  /\ calls.fetch_status = 500
  /\ outcome = "V2DiagnosticException"

\* C6: a run whose remote fork URL is not an ssh one fails with no partial
\* action taken, whatever add_github_host is: nothing appended to
\* known_hosts, no remote added, no registry fetch or build, no file written,
\* no branch, commit, push or pull-request step.
C6_BadForkNoPartialAction ==
  outcome = "ValueError"
    => /\ calls.known_hosts = 0
       /\ calls.create_remote = 0
       /\ calls.fetch = None
       /\ calls.build = 0
       /\ calls.write = 0
       /\ NothingPublished(calls)

\* C7: _replace_parameters agrees with the reference patcher: a line with
\* fewer than five tokens, or not starting with `//` `@optionalParam`, or
\* whose third token is no key of the mapping, comes back unchanged; any
\* other line comes back as its tokens joined by single spaces with the
\* fifth replaced by the mapped value; the old-value map has exactly the keys
\* some line matched, each with the fifth token of a matching line.
C7_PatchMatchesReference ==
  p_out.done =>
    /\ Len(p_out.lines) = Len(p_lines)
    /\ \A i \in 1..Len(p_lines) :
         LET p == re_findall_nonspace(p_lines[i])
         IN  IF \/ Len(p) < 5
                \/ p[1] # "//"
                \/ p[2] # "@optionalParam"
                \/ p[3] \notin DOMAIN p_values
             THEN p_out.lines[i] = p_lines[i]
             ELSE p_out.lines[i] =
                    str_join(" ", [k \in 1..Len(p) |->
                                     IF k = 5 THEN p_values[p[3]] ELSE p[k]])
    /\ DOMAIN p_out.old =
         { k \in DOMAIN p_values :
             \E i \in 1..Len(p_lines) : Declares(p_lines[i], k) }
    /\ \A k \in DOMAIN p_out.old :
         \E i \in 1..Len(p_lines) :
           /\ Declares(p_lines[i], k)
           /\ p_out.old[k] = re_findall_nonspace(p_lines[i])[5]
    /\ p_values = EmptyDict => (p_out.lines = p_lines /\ p_out.old = EmptyDict)

C7_Witness ==
  /\ p_out.done
  /\ Len(p_lines) = 2
  /\ p_out.lines[1] # p_lines[1]
  /\ p_out.lines[2] = p_lines[2]
  /\ DOMAIN p_out.old = {"image"}
  /\ p_out.old["image"] = "v2"

\* C8 as stated: while a pull request with the exact title of the run's
\* revision is open, the run neither creates nor switches to the revision's
\* branch, so the active branch and the local branches stay as they were.
C8_NoBranchWhilePrOpen ==
  [][ (pc \notin {"idle", "done"} /\ TitleOpen(_pr_title(last_commit)))
        => (active' = active /\ branches' = branches) ]_vars

\* C8 amended: a run that the duplicate-PR check ends has made no commit, no
\* push and no pull request, but it has done the branch step, which comes
\* before the check: it ends on the branch named after the revision, and
\* that branch exists.
C8_PrCheckComesAfterBranch ==
  outcome = "pr_exists"
    => /\ pc = "done"
       /\ active = BranchName(last_commit)
       /\ active \in DOMAIN branches
       /\ NothingCommitted

C8_Witness ==
  /\ outcome = "pr_exists"
  /\ TitleOpen(_pr_title(last_commit))
  /\ calls.checkout = "git checkout -b"
  /\ active # "master"

\* C9: in one run `git log` is run exactly once, whatever it prints, and the
\* registry tag, the build's GIT_TAG, the branch name and both pull-request
\* titles all come from that one value.
C9_OneRevisionPerRun ==
  pc # "idle" =>
    /\ calls.git_log = 1
    /\ self_last_commit = last_commit
    /\ calls.fetch # None =>
         calls.fetch = ImageName(registry_project, last_commit)
    /\ calls.build > 0 => calls.git_tag = last_commit
    /\ calls.checkout # None => active = BranchName(last_commit)
    /\ calls.title_checked # None =>
         calls.title_checked = _pr_title(last_commit)
    /\ calls.title_created # None =>
         calls.title_created = _pr_title(last_commit)

\* C10: when no line of the prototype declares `image`, the patch raises
\* nothing and update_prototype does not read the missing `image` entry: the
\* run does not end in a KeyError.
C10_NoMissingKeyFault ==
  DeclaredValue(proto, "image") = None => outcome # "KeyError"

====
